---- MODULE Spec2Model ----
(***************************************************************************)
(* QR label generator (src/main.py).  The running program is the Streamlit *)
(* script of lines 232-336: an uploaded CSV is read with csv.DictReader,   *)
(* every row becomes one SVG drawing holding a QR code of row["lid"] and   *)
(* one text line per selected field, and the drawings are joined into one  *)
(* document.  Streamlit runs the script once per browser session, each in  *)
(* its own thread, so two sessions may run create_svg_with_qr at once.     *)
(*                                                                         *)
(* Strings stand for Python values.  Lengths are in thousandths of a pixel *)
(* so that 1 * CM_TO_PIXELS is an integer.                                 *)
(***************************************************************************)
EXTENDS Integers, Sequences, FiniteSets

VARIABLES
    sessions,         \* the browser sessions that uploaded a file
    csv_file,         \* per session: the uploaded CSV, [fieldnames, rows]
    selected_fields,  \* per session: st.multiselect's result
    pc,               \* per session: position in the script
    line_num,         \* per session: csv reader position (next raw row)
    row,              \* per session: the dict of the row being composed
    data,             \* per session: argument of generate_qr_code_base64
    buffers,          \* the live BytesIO buffers of all sessions
    qr_base64,        \* per session: result of generate_qr_code_base64
    dwg,              \* per session: elements of the current Drawing
    labels,           \* per session: the list `labels`
    svg_content,      \* per session: the returned document
    error,            \* per session: the exception st.error reported
    cancel,           \* per session: a cancellation request of the user
    page_cfg,         \* paged sink: page and label geometry, record count
    cursor,           \* paged sink: PageCursor
    placements,       \* paged sink: where each record was placed
    breaks,           \* paged sink: the column and page breaks taken
    sealed            \* paged sink: seal() was called

svgVars == <<sessions, csv_file, selected_fields, pc, line_num, row, data,
             buffers, qr_base64, dwg, labels, svg_content, error>>
pagedVars == <<page_cfg, cursor, placements, breaks, sealed>>
vars == <<svgVars, cancel, pagedVars>>

---------------------------------------------------------------------------
(* Bounds of the model *)

MaxRows == 2
MaxSelected == 2
MaxConcRows == 1
MaxPagedRecords == 10

---------------------------------------------------------------------------
(* Python values *)

Sessions == {1, 2}

\* Python's None (a short CSV row is filled with it, restval=None)
None == "<None>"
\* an identifier longer than the capacity of a version-40 QR code at level L
Oversize == "<OVERSIZE>"

FieldNames == {"lid", "name", "sku"}
LidValues == {"", "A1", "B2", Oversize}
NameValues == {"Widget"}

Range(seq) == {seq[i] : i \in 1..Len(seq)}

\* sequences over S of length at most n
SeqUpTo(S, n) == UNION {[1..k -> S] : k \in 0..n}

IndexOf(seq, x) == CHOOSE i \in 1..Len(seq) : seq[i] = x

\* str(value), as the f-strings apply it
Str(value) == IF value = None THEN "None" ELSE value

\* dict.get(key, default)
Get(dict, key, default) == IF key \in DOMAIN dict THEN dict[key] ELSE default

---------------------------------------------------------------------------
(* csv.DictReader *)

\* the dict DictReader builds from one raw row: missing trailing columns
\* get restval (None)
DictRow(fieldnames, raw) ==
    [f \in Range(fieldnames) |->
        IF IndexOf(fieldnames, f) <= Len(raw)
        THEN raw[IndexOf(fieldnames, f)] ELSE None]

\* DictReader.__next__ skips rows that are empty lists
NextNonBlank(rows, from) ==
    LET S == {i \in from..Len(rows) : rows[i] # <<>>}
    IN IF S = {} THEN 0 ELSE CHOOSE i \in S : \A j \in S : i <= j

\* the records of a file, in source order
Records(file) ==
    LET kept == SelectSeq(file.rows, LAMBDA r : r # <<>>)
    IN [i \in 1..Len(kept) |-> DictRow(file.fieldnames, kept[i])]

---------------------------------------------------------------------------
(* Geometry *)

CM_TO_PIXELS == 37795
Px(n) == n * 1000

qr_x == Px(5)
qr_y == Px(5)
qr_size == 1 * CM_TO_PIXELS
text_x == qr_x + qr_size + Px(10)
text_y == qr_y + Px(10)
font_size == Px(12)
CanvasSize == <<(38 * CM_TO_PIXELS) \div 10, (19 * CM_TO_PIXELS) \div 10>>

---------------------------------------------------------------------------
(* generate_qr_code_base64 *)

\* qrcode's to_bytestring: str(data).encode("utf-8")
ToByteString(d) == Str(d)

\* qr.make(fit=True) raises DataOverflowError above version 40
Overflows(d) == d = Oversize

Symbol(d) == [payload |-> ToByteString(d), error_correction |-> "L",
              box_size |-> 10, border |-> 1]
Png(img) == <<"PNG", img>>
B64(bytes) == <<"base64", bytes>>
NoAsset == <<"base64", "<nothing>">>

\* the PDF drafts (lines 46-57) instead save the PNG to a file named after
\* the identifier, "<lid>_temp_qr.png", and remove it afterwards
BufferOf_TempFile(s, d) == <<"file", d>>

\* the buffer a call writes its PNG to: a BytesIO local to the call
BufferOf(s, d) == <<"BytesIO", s>>

BufferContent(slot) ==
    LET hits == {b \in buffers : b.slot = slot}
    IN IF hits = {} THEN "<nothing>" ELSE (CHOOSE b \in hits : TRUE).bytes

---------------------------------------------------------------------------
(* create_svg_with_qr: the drawing of one row *)

ImageElement(b64) ==
    [tag |-> "image", href |-> <<"data:image/png;base64,", b64>>,
     insert |-> <<qr_x, qr_y>>, size |-> <<qr_size, qr_size>>]

\* the PDF drafts (line 66) instead run the lines upward from the anchor
LineY_Upward(idx) == text_y - idx * (font_size + Px(2))

LineY(idx) == text_y + idx * (font_size + Px(2))

TextElement(r, field, idx) ==
    [tag |-> "text", text |-> <<field, ": ", Str(Get(r, field, "N/A"))>>,
     insert |-> <<text_x, LineY(idx)>>, font_size |-> font_size,
     fill |-> "black"]

\* a loop over reversed(selected_fields) instead
TextElements_Reversed(r, fields) ==
    [i \in 1..Len(fields) |->
        TextElement(r, fields[Len(fields) + 1 - i], i - 1)]

\* enumerate(selected_fields) counts from 0
TextElements(r, fields) ==
    [i \in 1..Len(fields) |-> TextElement(r, fields[i], i - 1)]

\* dwg.tostring()
Tostring(elements) ==
    [tag |-> "svg", size |-> CanvasSize, children |-> elements]

\* labels.insert(0, x) instead
AppendLabel_Prepend(list, x) == <<x>> \o list

\* labels.append(x)
AppendLabel(list, x) == Append(list, x)

\* "\n".join(list); the separator is kept apart from the labels
Newline == [tag |-> "\n"]
RECURSIVE Join(_)
Join(list) ==
    IF list = <<>> THEN <<>>
    ELSE IF Len(list) = 1 THEN <<list[1]>>
    ELSE <<list[1], Newline>> \o Join(Tail(list))

\* svg_content before line 326 assigns it
NoDocument == <<[tag |-> "<no document>"]>>
NoError == "<no error>"

---------------------------------------------------------------------------
(* The script, one session at a time *)

\* an exception leaves create_svg_with_qr and reaches `except Exception`
\* of the script (lines 335-336): nothing is returned
Raise(s, e) ==
    /\ pc' = [pc EXCEPT ![s] = "error"]
    /\ error' = [error EXCEPT ![s] = e]

\* line 326 calls create_svg_with_qr; lines 262-271 decode the upload,
\* open the reader and start with an empty list
Begin(s) ==
    /\ s \in sessions
    /\ pc[s] = "idle"
    /\ pc' = [pc EXCEPT ![s] = "streaming"]
    /\ line_num' = [line_num EXCEPT ![s] = 1]
    /\ labels' = [labels EXCEPT ![s] = <<>>]
    /\ UNCHANGED <<sessions, csv_file, selected_fields, row, data, buffers,
                   qr_base64, dwg, svg_content, error, cancel, pagedVars>>

\* `for row in csv_reader` delivers the next record; line 276 makes its
\* Drawing
FetchRow(s) ==
    /\ s \in sessions
    /\ pc[s] = "streaming"
    /\ LET n == NextNonBlank(csv_file[s].rows, line_num[s])
       IN /\ n # 0
          /\ row' = [row EXCEPT ![s] =
                        DictRow(csv_file[s].fieldnames, csv_file[s].rows[n])]
          /\ line_num' = [line_num EXCEPT ![s] = n + 1]
    /\ dwg' = [dwg EXCEPT ![s] = <<>>]
    /\ pc' = [pc EXCEPT ![s] = "composing"]
    /\ UNCHANGED <<sessions, csv_file, selected_fields, data, buffers,
                   qr_base64, labels, svg_content, error, cancel, pagedVars>>

\* the reader is exhausted: the loop ends
Exhausted(s) ==
    /\ s \in sessions
    /\ pc[s] = "streaming"
    /\ NextNonBlank(csv_file[s].rows, line_num[s]) = 0
    /\ pc' = [pc EXCEPT ![s] = "finalizing"]
    /\ UNCHANGED <<sessions, csv_file, selected_fields, line_num, row, data,
                   buffers, qr_base64, dwg, labels, svg_content, error,
                   cancel, pagedVars>>

\* line 279 evaluates row["lid"] and calls generate_qr_code_base64 with it
LookupLid(s) ==
    /\ s \in sessions
    /\ pc[s] = "composing"
    /\ "lid" \in DOMAIN row[s]
    /\ data' = [data EXCEPT ![s] = row[s]["lid"]]
    /\ pc' = [pc EXCEPT ![s] = "qr_make"]
    /\ UNCHANGED <<sessions, csv_file, selected_fields, line_num, row,
                   buffers, qr_base64, dwg, labels, svg_content, error,
                   cancel, pagedVars>>

\* line 279 on a file without a lid column: row["lid"] raises KeyError
LookupLidFails(s) ==
    /\ s \in sessions
    /\ pc[s] = "composing"
    /\ "lid" \notin DOMAIN row[s]
    /\ Raise(s, "KeyError: 'lid'")
    /\ UNCHANGED <<sessions, csv_file, selected_fields, line_num, row, data,
                   buffers, qr_base64, dwg, labels, svg_content, cancel,
                   pagedVars>>

\* lines 244-252: add_data and make(fit=True) build the symbol
QrMake(s) ==
    /\ s \in sessions
    /\ pc[s] = "qr_make"
    /\ ~Overflows(data[s])
    /\ pc' = [pc EXCEPT ![s] = "qr_save"]
    /\ UNCHANGED <<sessions, csv_file, selected_fields, line_num, row, data,
                   buffers, qr_base64, dwg, labels, svg_content, error,
                   cancel, pagedVars>>

\* line 251 on an identifier beyond the largest symbol: DataOverflowError
QrMakeFails(s) ==
    /\ s \in sessions
    /\ pc[s] = "qr_make"
    /\ Overflows(data[s])
    /\ Raise(s, "DataOverflowError")
    /\ UNCHANGED <<sessions, csv_file, selected_fields, line_num, row, data,
                   buffers, qr_base64, dwg, labels, svg_content, cancel,
                   pagedVars>>

\* lines 255-256: the PNG is saved into the call's buffer
QrSave(s) ==
    /\ s \in sessions
    /\ pc[s] = "qr_save"
    /\ LET slot == BufferOf(s, data[s])
       IN buffers' = {b \in buffers : b.slot # slot} \cup
                     {[slot |-> slot, bytes |-> Png(Symbol(data[s])),
                       writer |-> s]}
    /\ pc' = [pc EXCEPT ![s] = "qr_b64"]
    /\ UNCHANGED <<sessions, csv_file, selected_fields, line_num, row, data,
                   qr_base64, dwg, labels, svg_content, error, cancel,
                   pagedVars>>

\* line 257: the buffer is read and encoded; returning drops the buffer
QrReturn(s) ==
    /\ s \in sessions
    /\ pc[s] = "qr_b64"
    /\ LET slot == BufferOf(s, data[s])
       IN /\ qr_base64' = [qr_base64 EXCEPT ![s] = B64(BufferContent(slot))]
          /\ buffers' = {b \in buffers : b.slot # slot}
    /\ pc' = [pc EXCEPT ![s] = "drawing"]
    /\ UNCHANGED <<sessions, csv_file, selected_fields, line_num, row, data,
                   dwg, labels, svg_content, error, cancel, pagedVars>>

\* lines 281-299: the image, then one text element per selected field
Draw(s) ==
    /\ s \in sessions
    /\ pc[s] = "drawing"
    /\ dwg' = [dwg EXCEPT ![s] =
                  <<ImageElement(qr_base64[s])>> \o
                  TextElements(row[s], selected_fields[s])]
    /\ pc' = [pc EXCEPT ![s] = "placing"]
    /\ UNCHANGED <<sessions, csv_file, selected_fields, line_num, row, data,
                   buffers, qr_base64, labels, svg_content, error, cancel,
                   pagedVars>>

\* line 302: labels.append(dwg.tostring())
Place(s) ==
    /\ s \in sessions
    /\ pc[s] = "placing"
    /\ labels' = [labels EXCEPT ![s] = AppendLabel(labels[s], Tostring(dwg[s]))]
    /\ pc' = [pc EXCEPT ![s] = "streaming"]
    /\ UNCHANGED <<sessions, csv_file, selected_fields, line_num, row, data,
                   buffers, qr_base64, dwg, svg_content, error, cancel,
                   pagedVars>>

\* line 305 returns the joined labels; lines 329-334 offer the download
Finalize(s) ==
    /\ s \in sessions
    /\ pc[s] = "finalizing"
    /\ svg_content' = [svg_content EXCEPT ![s] = Join(labels[s])]
    /\ pc' = [pc EXCEPT ![s] = "done"]
    /\ UNCHANGED <<sessions, csv_file, selected_fields, line_num, row, data,
                   buffers, qr_base64, dwg, labels, error, cancel, pagedVars>>

\* the user asks to stop; no statement of the script reads the request
RequestCancel(s) ==
    /\ s \in sessions
    /\ pc[s] \notin {"idle", "done", "error"}
    /\ ~cancel[s]
    /\ cancel' = [cancel EXCEPT ![s] = TRUE]
    /\ UNCHANGED <<svgVars, pagedVars>>

---------------------------------------------------------------------------
(* Inputs *)

\* uploads with a lid column: rows as the csv reader splits them, blank
\* lines and rows shorter than the header included
RowsWithLid ==
    {<<>>} \cup {<<l>> : l \in LidValues}
           \cup {<<l, n>> : l \in LidValues, n \in NameValues}
\* uploads without a lid column
RowsWithoutLid == {<<>>} \cup {<<n>> : n \in NameValues}

Uploads ==
    {[fieldnames |-> <<"lid", "name">>, rows |-> r] :
        r \in SeqUpTo(RowsWithLid, MaxRows)}
    \cup {[fieldnames |-> <<"name">>, rows |-> r] :
        r \in SeqUpTo(RowsWithoutLid, MaxRows)}

\* a selection names no field twice
Selections ==
    {f \in SeqUpTo(FieldNames, MaxSelected) :
        \A i, j \in 1..Len(f) : f[i] = f[j] => i = j}

NoUpload == [fieldnames |-> <<>>, rows |-> <<>>]

InitPagedIdle ==
    /\ page_cfg = [H |-> 0, W |-> 0, margin |-> 0, h |-> 0, w |-> 0,
                   p |-> 0, n |-> 0]
    /\ cursor = [page |-> 0, x |-> 0, y |-> 0]
    /\ placements = <<>>
    /\ breaks = <<>>
    /\ sealed = FALSE

InitSession(active, files, fields) ==
    /\ sessions = active
    /\ csv_file = files
    /\ selected_fields = fields
    /\ pc = [s \in Sessions |-> "idle"]
    /\ line_num = [s \in Sessions |-> 1]
    /\ row = [s \in Sessions |-> <<>>]
    /\ data = [s \in Sessions |-> None]
    /\ buffers = {}
    /\ qr_base64 = [s \in Sessions |-> NoAsset]
    /\ dwg = [s \in Sessions |-> <<>>]
    /\ labels = [s \in Sessions |-> <<>>]
    /\ svg_content = [s \in Sessions |-> NoDocument]
    /\ error = [s \in Sessions |-> NoError]
    /\ cancel = [s \in Sessions |-> FALSE]

\* one session
Init ==
    /\ \E u \in Uploads, f \in Selections :
         InitSession({1}, [s \in Sessions |-> IF s = 1 THEN u ELSE NoUpload],
                     [s \in Sessions |-> IF s = 1 THEN f ELSE <<>>])
    /\ InitPagedIdle

Step(s) ==
    \/ Begin(s)
    \/ FetchRow(s)
    \/ Exhausted(s)
    \/ LookupLid(s)
    \/ LookupLidFails(s)
    \/ QrMake(s)
    \/ QrMakeFails(s)
    \/ QrSave(s)
    \/ QrReturn(s)
    \/ Draw(s)
    \/ Place(s)
    \/ Finalize(s)

Next == \E s \in Sessions : Step(s)

Spec == Init /\ [][Next]_vars

---------------------------------------------------------------------------
(* Two sessions at once *)

ConcUploads ==
    {[fieldnames |-> <<"lid", "name">>, rows |-> r] :
        r \in SeqUpTo({<<l, "Widget">> : l \in {"A1", "B2", Oversize}},
                      MaxConcRows) \ {<<>>}}
    \cup {[fieldnames |-> <<"name">>, rows |-> << <<"Widget">> >>]}

InitConc ==
    /\ \E u \in [Sessions -> ConcUploads] :
         InitSession(Sessions, u, [s \in Sessions |-> <<"name">>])
    /\ InitPagedIdle

SpecConc == InitConc /\ [][Next]_vars

---------------------------------------------------------------------------
(* One session and a user who may ask to stop *)

NextCancel == Next \/ \E s \in Sessions : RequestCancel(s)

SpecCancel == Init /\ [][NextCancel]_vars

---------------------------------------------------------------------------
(* PagedDocumentSink: labels flow down a column, then to the next column, *)
(* then to the next page                                                   *)

PageGeometries ==
    {[H |-> ph, W |-> pw, margin |-> 1, h |-> 4, w |-> 8, p |-> 1, n |-> k] :
        ph \in {11, 21, 23}, pw \in {10, 19, 28}, k \in 0..MaxPagedRecords}

\* one more label fits below the cursor
FitsBelow(cfg, cur) == cur.y + (cfg.h + cfg.p) <= cfg.H - cfg.margin

\* one more column fits at x
FitsAcross(cfg, x) == x + (cfg.w + cfg.p) <= cfg.W - cfg.margin

\* a sink that opens a page for every new column instead
PlaceAt_PagePerColumn(cfg, cur) ==
    IF FitsBelow(cfg, cur) THEN [page |-> cur.page, x |-> cur.x, y |-> cur.y]
    ELSE [page |-> cur.page + 1, x |-> 0, y |-> 0]

\* where place() puts the next label
PlaceAt(cfg, cur) ==
    IF FitsBelow(cfg, cur) THEN [page |-> cur.page, x |-> cur.x, y |-> cur.y]
    ELSE IF FitsAcross(cfg, cur.x + (cfg.w + cfg.p))
         THEN [page |-> cur.page, x |-> cur.x + (cfg.w + cfg.p), y |-> 0]
         ELSE [page |-> cur.page + 1, x |-> 0, y |-> 0]

\* the break place() takes for the next label, if any
BreakKind(cfg, cur) ==
    IF FitsBelow(cfg, cur) THEN "none"
    ELSE IF FitsAcross(cfg, cur.x + (cfg.w + cfg.p)) THEN "column"
         ELSE "page"

\* place(label) of record number Len(placements), counted from 0
PagedPlace ==
    /\ ~sealed
    /\ Len(placements) < page_cfg.n
    /\ LET at == PlaceAt(page_cfg, cursor)
           kind == BreakKind(page_cfg, cursor)
           index == Len(placements)
       IN /\ placements' = Append(placements, at)
          /\ cursor' = [at EXCEPT !.y = at.y + (page_cfg.h + page_cfg.p)]
          /\ breaks' = IF kind = "none" THEN breaks
                       ELSE Append(breaks, [index |-> index, kind |-> kind])
    /\ UNCHANGED <<svgVars, cancel, page_cfg, sealed>>

\* seal() after the last record
PagedSeal ==
    /\ ~sealed
    /\ Len(placements) = page_cfg.n
    /\ sealed' = TRUE
    /\ UNCHANGED <<svgVars, cancel, page_cfg, cursor, placements, breaks>>

InitPaged ==
    /\ InitSession({}, [s \in Sessions |-> NoUpload],
                   [s \in Sessions |-> <<>>])
    /\ page_cfg \in PageGeometries
    /\ cursor = [page |-> 0, x |-> 0, y |-> 0]
    /\ placements = <<>>
    /\ breaks = <<>>
    /\ sealed = FALSE

NextPaged == PagedPlace \/ PagedSeal

SpecPaged == InitPaged /\ [][NextPaged]_vars

---------------------------------------------------------------------------
(* Vocabulary of the properties *)

Terminal(s) == pc[s] \in {"done", "error"}

InEncoder(s) == pc[s] \in {"qr_make", "qr_save", "qr_b64"}

\* the record carries an identifier: the lid column exists and is filled
NonEmptyLid(r) == "lid" \in DOMAIN r /\ r["lid"] \notin {"", None}

\* ... and the encoder accepts it
UsableLid(r) == NonEmptyLid(r) /\ ~Overflows(r["lid"])

\* the raw row supplied no value for the field
FieldAbsent(r, f) == f \notin DOMAIN r \/ r[f] = None

\* the label of record r: a symbol of r's identifier and r's text lines
ExpectedSymbol(r) == B64(Png(Symbol(r["lid"])))

Images(elements) == SelectSeq(elements, LAMBDA e : e.tag = "image")
Texts(elements) == SelectSeq(elements, LAMBDA e : e.tag = "text")

\* the element lists compose has produced so far in session s: the
\* finished drawing in hand, and every drawing already in the list
Composed(s) ==
    {[record |-> Records(csv_file[s])[j], elements |-> labels[s][j].children] :
        j \in 1..Len(labels[s])}
    \cup (IF pc[s] = "placing"
          THEN {[record |-> row[s], elements |-> dwg[s]]} ELSE {})

---------------------------------------------------------------------------
(* C1: when composing a record fails, the record is skipped and the batch  *)
(* goes on: once the batch has ended, every record with a usable lid that  *)
(* comes after a record without one is in the output.                      *)
C1_FailureIsolation ==
    \A s \in sessions :
        Terminal(s) =>
            \A i \in 1..Len(Records(csv_file[s])) :
                LET r == Records(csv_file[s])[i]
                IN (/\ UsableLid(r)
                    /\ \E j \in 1..(i - 1) :
                          ~UsableLid(Records(csv_file[s])[j])) =>
                     /\ pc[s] = "done"
                     /\ \E k \in 1..Len(svg_content[s]) :
                           /\ svg_content[s][k].tag = "svg"
                           /\ Images(svg_content[s][k].children)
                                = <<ImageElement(ExpectedSymbol(r))>>

(* C2: a record whose lid is empty or missing never reaches the symbol     *)
(* encoder, and it is not counted among the placed labels.                 *)
C2_NoLidNeverEncoded ==
    \A s \in sessions :
        /\ InEncoder(s) => data[s] \notin {"", None}
        /\ \A j \in 1..Len(labels[s]) :
              NonEmptyLid(Records(csv_file[s])[j])

(* C3: for a record with a non-empty lid, what compose produces holds      *)
(* exactly one symbol, the one of the record's lid, and exactly            *)
(* len(selected_fields) text lines, the i-th being the line of the i-th    *)
(* selected field.                                                         *)
C3_OneSymbolAndOrderedLines ==
    \A s \in sessions : \A c \in Composed(s) :
        NonEmptyLid(c.record) =>
            /\ Images(c.elements) = <<ImageElement(ExpectedSymbol(c.record))>>
            /\ Len(Texts(c.elements)) = Len(selected_fields[s])
            /\ Len(c.elements) = 1 + Len(selected_fields[s])
            /\ \A i \in 1..Len(selected_fields[s]) :
                  /\ Texts(c.elements)[i].text[1] = selected_fields[s][i]
                  /\ Texts(c.elements)[i].text[2] = ": "

C3_Witness ==
    \E s \in sessions :
        /\ pc[s] = "placing"
        /\ NonEmptyLid(row[s])
        /\ Len(selected_fields[s]) = 2

(* C4: a selected field that is absent from the record renders as the      *)
(* line "<fieldName>: N/A", also when the row is shorter than the header.  *)
C4_AbsentFieldRendersNA ==
    \A s \in sessions : \A c \in Composed(s) :
        \A i \in 1..Len(selected_fields[s]) :
            FieldAbsent(c.record, selected_fields[s][i]) =>
                Texts(c.elements)[i].text = <<selected_fields[s][i], ": ", "N/A">>

(* C5: the label list holds one canvas per placed record, in source order  *)
(* (entry i is the canvas of record i), and the returned document is the   *)
(* concatenation of all of them.                                           *)
C5_OneCanvasPerRecordInOrder ==
    \A s \in sessions :
        /\ \A j \in 1..Len(labels[s]) :
              LET r == Records(csv_file[s])[j]
              IN /\ labels[s][j].tag = "svg"
                 /\ labels[s][j].size = CanvasSize
                 /\ Images(labels[s][j].children)
                      = <<ImageElement(ExpectedSymbol(r))>>
                 /\ \A i \in 1..Len(selected_fields[s]) :
                       Texts(labels[s][j].children)[i].text
                         = <<selected_fields[s][i], ": ",
                             Str(Get(r, selected_fields[s][i], "N/A"))>>
        /\ pc[s] \in {"streaming", "finalizing", "done"} =>
              Len(labels[s]) =
                 Len(SelectSeq(SubSeq(csv_file[s].rows, 1, line_num[s] - 1),
                               LAMBDA x : x # <<>>))
        /\ pc[s] = "done" =>
              /\ Len(labels[s]) = Len(Records(csv_file[s]))
              /\ Len(svg_content[s]) =
                    IF labels[s] = <<>> THEN 0 ELSE 2 * Len(labels[s]) - 1
              /\ \A j \in 1..Len(labels[s]) :
                    svg_content[s][2 * j - 1] = labels[s][j]
              /\ \A j \in 1..(Len(labels[s]) - 1) :
                    svg_content[s][2 * j] = Newline

C5_Witness ==
    \E s \in sessions :
        /\ pc[s] = "done"
        /\ Len(labels[s]) = 2
        /\ labels[s][1] # labels[s][2]
        /\ Len(svg_content[s]) = 3

(* C6 (as the spec states it): with k = floor((H - margin) / (h + p))      *)
(* labels per column the (k+1)-th label starts a new column or page, in   *)
(* source order; 10 records on pages of 2 columns of 4 labels take exactly *)
(* 2 page breaks, at record indices 4 and 8.                               *)
PerColumn(cfg) == (cfg.H - cfg.margin) \div (cfg.h + cfg.p)
PerRow(cfg) == (cfg.W - cfg.margin) \div (cfg.w + cfg.p)
Scenario3 ==
    /\ sealed
    /\ page_cfg.n = 10
    /\ PerColumn(page_cfg) = 4
    /\ PerRow(page_cfg) = 2
BreaksOf(kinds) ==
    {breaks[i].index : i \in {j \in 1..Len(breaks) : breaks[j].kind \in kinds}}

C6_Original_TwoPageBreaks ==
    Scenario3 => BreaksOf({"page"}) = {4, 8}

(* C6, amended: record i (from 0) lies on page i div (k*c), in column      *)
(* (i mod (k*c)) div k, at row i mod k, where k labels fit a column and c  *)
(* columns fit a page; a break is taken exactly at the multiples of k, and *)
(* it is a page break exactly at the multiples of k*c.  In the scenario    *)
(* the breaks are at indices 4 and 8: a column break at 4 and the only     *)
(* page break at 8.                                                        *)
C6_PagedFlow ==
    LET k == PerColumn(page_cfg)
        c == PerRow(page_cfg)
    IN /\ \A j \in 1..Len(placements) :
             LET i == j - 1
             IN /\ placements[j].page = i \div (k * c)
                /\ placements[j].x
                     = ((i % (k * c)) \div k) * (page_cfg.w + page_cfg.p)
                /\ placements[j].y = (i % k) * (page_cfg.h + page_cfg.p)
       /\ BreaksOf({"column", "page"})
            = {i \in 1..(Len(placements) - 1) : i % k = 0}
       /\ BreaksOf({"page"})
            = {i \in 1..(Len(placements) - 1) : i % (k * c) = 0}
       /\ Scenario3 =>
             /\ BreaksOf({"column"}) = {4}
             /\ BreaksOf({"page"}) = {8}

C6_Witness ==
    /\ Scenario3
    /\ breaks = <<[index |-> 4, kind |-> "column"],
                  [index |-> 8, kind |-> "page"]>>
    /\ Len(placements) = 10

(* C7: the cancellation signal is checked at every record boundary: once   *)
(* it is raised, the batch composes no further record.                     *)
C7_CancelStopsAtBoundary ==
    [][\A s \in Sessions :
          (cancel[s] /\ pc[s] = "streaming") => pc'[s] # "composing"]_vars

(* C8: two batches running at once share no symbol asset: while a call of  *)
(* the encoder holds its asset, the asset is the one it wrote for its own  *)
(* identifier, whatever the other batch does with the same identifier; the *)
(* symbol a batch draws is the one of its own record; and outside the      *)
(* encoder a batch holds no buffer, also after an error.                   *)
C8_NoSharedAsset ==
    \A s \in sessions :
        /\ pc[s] = "qr_b64" =>
              {b \in buffers : b.slot = BufferOf(s, data[s])}
                = {[slot |-> BufferOf(s, data[s]),
                    bytes |-> Png(Symbol(row[s]["lid"])), writer |-> s]}
        /\ pc[s] # "qr_b64" => \A b \in buffers : b.writer # s
        /\ pc[s] \in {"drawing", "placing"} =>
              qr_base64[s] = ExpectedSymbol(row[s])
        /\ Cardinality(buffers) <= Cardinality(sessions)

C8_Witness ==
    /\ sessions = Sessions
    /\ \A s \in Sessions : pc[s] = "qr_b64"
    /\ data[1] = data[2]
    /\ Cardinality(buffers) = 2

(* C9: every record that was taken up ends Placed or Skipped, and every    *)
(* batch ends in Done after Finalizing: a batch that has stopped is Done   *)
(* and has placed or skipped each of its records.                          *)
C9_EveryBatchEndsDone ==
    \A s \in sessions :
        (~ENABLED Step(s)) =>
            /\ pc[s] = "done"
            /\ Len(labels[s]) = Len(Records(csv_file[s]))

(* C10: in every label the text anchor is right of the symbol              *)
(* (x = symbol.x + symbol size + 10 px), line i of the selection is at     *)
(* y = anchor.y + i * (font size + 2 px), so the lines run downward and    *)
(* strictly increase, and the positions are the same in every label of the *)
(* batch.                                                                  *)
C10_TextLayout ==
    \A s \in sessions : \A c \in Composed(s) :
        LET img == Images(c.elements)[1]
            lines == Texts(c.elements)
        IN /\ \A i \in 1..Len(lines) :
                 /\ lines[i].insert[1] = img.insert[1] + img.size[1] + Px(10)
                 /\ lines[i].insert[2]
                      = img.insert[2] + Px(10) + (i - 1) * (lines[i].font_size + Px(2))
           /\ \A i \in 1..(Len(lines) - 1) :
                 lines[i].insert[2] < lines[i + 1].insert[2]
           /\ \A d \in Composed(s) :
                 \A i \in 1..Len(lines) :
                    Texts(d.elements)[i].insert = lines[i].insert

C10_Witness ==
    \E s \in sessions :
        /\ Len(labels[s]) = 2
        /\ Len(Texts(labels[s][2].children)) = 2
        /\ Texts(labels[s][2].children)[2].insert = <<text_x, text_y + Px(14)>>

====
